---- MODULE Spec2Model ----
(***************************************************************************)
(* State-machine model of qsim.simulator.Simulator (src/qsim/simulator.py): *)
(* the object that wraps the cost functions of a pulse simulation and their *)
(* Jacobian for an optimizer.                                               *)
(*                                                                          *)
(* Python values are encoded as follows.                                    *)
(*   Optional[x]      None is <<>>, a present value x is <<x>>               *)
(*   2-d array        a sequence of rows, each row a sequence of integers    *)
(*   3-d array        a sequence (time) of sequences (cost) of rows (ctrl)   *)
(*   cost value       [ndim |-> 0 or 1, v |-> sequence] (numpy scalar/array) *)
(*   gradient value   [ndim |-> 2 or 3, a |-> nested sequences]              *)
(* Amplitudes, weights and finite differences are integers; the solvers,    *)
(* the cost functions and the two parameter maps live outside simulator.py  *)
(* and are modelled by small polynomial stand-ins through their interface.  *)
(***************************************************************************)
EXTENDS Integers, Sequences, FiniteSets, TLC

VARIABLES
    constructed,        \* "ok", or "ValueError" when __init__ raised
    args,               \* the arguments __init__ was called with
    cost_fktns,         \* self.cost_fktns
    amps,               \* amps[s]: Optional pulse bound to self.tslot_comps[s]
    pulse,              \* self._pulse (Optional)
    num_times,          \* self._num_times (Optional)
    num_ctrl,           \* self._num_ctrl (Optional)
    stats,              \* self.stats (Optional OptimizationStatistics)
    numeric_jacobian,   \* self.numeric_jacobian
    cost_fktn_weights,  \* self.cost_fktn_weights (Optional sequence)
    ret                 \* the last call: its arguments, outcome and call log

vars == <<constructed, args, cost_fktns, amps, pulse, num_times, num_ctrl,
          stats, numeric_jacobian, cost_fktn_weights, ret>>

config == <<constructed, args, cost_fktns, numeric_jacobian, cost_fktn_weights>>

(***************************************************************************)
(* Bounds and input sets                                                    *)
(***************************************************************************)
MaxMeasures == 2
MaxRecorded == 1
DefaultDeltaEps == 1

None == <<>>
Some(x) == <<x>>
IsNone(o) == o = <<>>
Val(o) == o[1]

\* A function over 1..n as a sequence value.
Tup(f) == f \o <<>>

RECURSIVE SumSeq(_)
SumSeq(s) == IF s = <<>> THEN 0 ELSE Head(s) + SumSeq(Tail(s))

RECURSIVE Flatten(_)
Flatten(ss) == IF ss = <<>> THEN <<>> ELSE Head(ss) \o Flatten(Tail(ss))

PulseA == << <<1>>, <<2>> >>
PulseB == << <<1, 3>> >>
Pulses == {PulseA, PulseB}
DeltaEpsValues == {2 * DefaultDeltaEps}
Solvers == {1, 2}

ScalarMeasure == [kind |-> "scalar", index |-> <<"a">>]
VectorMeasure == [kind |-> "vector", index |-> <<"b1", "b2">>]
\* Lists of 1..MaxMeasures cost functions, scalar and vector ones alternating.
Alternating(first, second, n) == Tup([i \in 1..n |-> IF i % 2 = 1 THEN first ELSE second])
MeasureLists == {Alternating(ScalarMeasure, VectorMeasure, n) : n \in 1..MaxMeasures} \cup {Alternating(VectorMeasure, ScalarMeasure, n) : n \in 1..MaxMeasures}
WeightsFor(n) == {None, Some(<<>>)} \cup {Some(Tup([i \in 1..k |-> i + 1])) : k \in 1..(n + 1)}

(***************************************************************************)
(* Array helpers (numpy)                                                    *)
(***************************************************************************)
Shape(p) == <<Len(p), Len(p[1])>>
Add2(p, q) == Tup([t \in 1..Len(p) |-> Tup([c \in 1..Len(p[t]) |-> p[t][c] + q[t][c]])])
Sub2(p, q) == Tup([t \in 1..Len(p) |-> Tup([c \in 1..Len(p[t]) |-> p[t][c] - q[t][c]])])
Scale1(v, w) == Tup([j \in 1..Len(v) |-> v[j] * w])
Sub1(v, u) == Tup([j \in 1..Len(v) |-> v[j] - u[j]])
Div1(v, d) == Tup([j \in 1..Len(v) |-> v[j] \div d])
Scale3(a, w) == Tup([t \in 1..Len(a) |-> Tup([j \in 1..Len(a[t]) |-> Tup([c \in 1..Len(a[t][j]) |-> a[t][j][c] * w])])])
Sub3(a, b) == Tup([t \in 1..Len(a) |-> Tup([j \in 1..Len(a[t]) |-> Tup([c \in 1..Len(a[t][j]) |-> a[t][j][c] - b[t][j][c]])])])
Shape3(a) == <<Len(a), Len(a[1]), Len(a[1][1])>>
NormSq3(a) == SumSeq(Flatten(Tup([t \in 1..Len(a) |-> Flatten(Tup([j \in 1..Len(a[t]) |-> Tup([c \in 1..Len(a[t][j]) |-> a[t][j][c] * a[t][j][c]])]))])))
ConcatAxis0(blocks) == Flatten(blocks)
ConcatAxis1(blocks) == Tup([t \in 1..Len(blocks[1]) |-> Flatten(Tup([i \in 1..Len(blocks) |-> blocks[i][t]]))])
ExpandDimsAxis1(a) == Tup([t \in 1..Len(a) |-> <<a[t]>>])

(***************************************************************************)
(* Collaborators outside simulator.py, through their interface              *)
(***************************************************************************)
\* Solver of cost function i: the solvers are shared round robin.
SolverOf(i) == ((i - 1) % Cardinality(Solvers)) + 1
\* transfer_function(pulse): running sum along the time axis.
TransferFunction(p) == Tup([t \in 1..Len(p) |-> Tup([c \in 1..Len(p[t]) |-> SumSeq(Tup([s \in 1..t |-> p[s][c]]))])])
\* amplitude_function(x): elementwise square.
AmplitudeFunction(x) == Tup([t \in 1..Len(x) |-> Tup([c \in 1..Len(x[t]) |-> x[t][c] * x[t][c]])])
\* amplitude_function.gradient_chain_rule(jac_u, x): d u / d x = 2 x.
AmplitudeChainRule(jac_u, x) == Tup([t \in 1..Len(jac_u) |-> Tup([j \in 1..Len(jac_u[t]) |-> Tup([c \in 1..Len(jac_u[t][j]) |-> jac_u[t][j][c] * 2 * x[t][c]])])])
\* transfer_function.gradient_chain_rule(jac_x): transpose of the running sum.
TransferChainRule(jac_x) == Tup([s \in 1..Len(jac_x) |-> Tup([j \in 1..Len(jac_x[s]) |-> Tup([c \in 1..Len(jac_x[s][j]) |-> SumSeq(Tup([t \in 1..(Len(jac_x) - s + 1) |-> jac_x[s + t - 1][j][c]]))])])])
\* Coefficient of component j of cost function i on control c.
Coef(i, j, c) == i + j + c
\* The control amplitudes cost function i sees: its solver's bound pulse.
ControlAmps(a, i) == AmplitudeFunction(TransferFunction(Val(a[SolverOf(i)])))
CostComponent(a, i, j) == LET u == ControlAmps(a, i) IN SumSeq(Flatten(Tup([t \in 1..Len(u) |-> Tup([c \in 1..Len(u[t]) |-> Coef(i, j, c) * u[t][c]])])))
\* cost_fktn.costs(): a numpy scalar or a 1-d array with one value per index.
Costs(a, i) == IF cost_fktns[i].kind = "scalar" THEN [ndim |-> 0, v |-> <<CostComponent(a, i, 1)>>] ELSE [ndim |-> 1, v |-> Tup([j \in 1..Len(cost_fktns[i].index) |-> CostComponent(a, i, j)])]
\* cost_fktn.grad(): (num_t, num_ctrl) or (num_t, k, num_ctrl), w.r.t. the control amplitudes.
Grad(a, i) == LET p == Val(a[SolverOf(i)]) IN IF cost_fktns[i].kind = "scalar" THEN [ndim |-> 2, a |-> Tup([t \in 1..Len(p) |-> Tup([c \in 1..Len(p[t]) |-> Coef(i, 1, c)])])] ELSE [ndim |-> 3, a |-> Tup([t \in 1..Len(p) |-> Tup([j \in 1..Len(cost_fktns[i].index) |-> Tup([c \in 1..Len(p[t]) |-> Coef(i, j, c)])])])]
\* A difference of two time.time() readings.
Duration == "dt"
Event(name, i, p) == [ev |-> name, i |-> i, pulse |-> p]

(***************************************************************************)
(* Simulator: the methods of the class.  A call threads the part of the     *)
(* state it changes, st = [stats, amps, log], and returns                   *)
(* [raised, value, st].                                                     *)
(***************************************************************************)
NumCost == Len(cost_fktns)

\* Variant: the index lists are collected from the last cost function to the first.
CostIndicesReversed == Flatten(Tup([i \in 1..NumCost |-> cost_fktns[NumCost + 1 - i].index]))

\* Simulator.cost_indices
CostIndices == Flatten(Tup([i \in 1..NumCost |-> cost_fktns[i].index]))

\* "if pulse is None: pulse = self.pulse"
EffectivePulse(pulse_arg) == IF IsNone(pulse_arg) THEN pulse ELSE pulse_arg

\* "for tslot_comp in self.tslot_comps: tslot_comp.set_ctrl_amps(pulse)"
SetCtrlAmps(p, st) == [st EXCEPT !.amps = [s \in Solvers |-> p], !.log = st.log \o Tup([s \in 1..Cardinality(Solvers) |-> Event("set_ctrl_amps", s, p)])]

\* Variant: every cost function is multiplied by the first weight.
WeightedCostByFirst(cost, i) == IF ~IsNone(cost_fktn_weights) THEN [cost EXCEPT !.v = Scale1(cost.v, Val(cost_fktn_weights)[1])] ELSE cost

\* "if self.cost_fktn_weights is not None: cost *= self.cost_fktn_weights[i]"
WeightedCost(cost, i) == IF ~IsNone(cost_fktn_weights) THEN [cost EXCEPT !.v = Scale1(cost.v, Val(cost_fktn_weights)[i])] ELSE cost

\* "if hasattr(cost, '__len__'): costs.append(cost) else: costs.append(cost.reshape(1))"
CostBlock(cost) == IF cost.ndim > 0 THEN cost.v ELSE [ndim |-> 1, v |-> cost.v].v

\* Variant: the duration is recorded inside the "if weights" block only.
CostsRecordedWhenWeighted(st, fail_at) == LET n == IF IsNone(cost_fktn_weights) THEN 0 ELSE IF fail_at = 0 THEN NumCost ELSE fail_at - 1
                                              queried == IF fail_at = 0 THEN NumCost ELSE fail_at
                                              old == Val(st.stats)
                                              times == Append(old.cost_func_eval_times, Tup([i \in 1..n |-> Duration]))
                                          IN [raised |-> IF fail_at = 0 THEN "" ELSE "CostError",
                                              value |-> IF fail_at = 0 THEN ConcatAxis0(Tup([i \in 1..NumCost |-> CostBlock(WeightedCost(Costs(st.amps, i), i))])) ELSE <<>>,
                                              st |-> [st EXCEPT !.stats = Some([old EXCEPT !.cost_func_eval_times = times]),
                                                                !.log = st.log \o Tup([i \in 1..queried |-> Event("costs", i, None)])]]

\* The recording branch of wrapped_cost_functions; cost function fail_at (if any) raises.
CostsRecorded(st, fail_at) == LET n == IF fail_at = 0 THEN NumCost ELSE fail_at - 1
                                  queried == IF fail_at = 0 THEN NumCost ELSE fail_at
                                  old == Val(st.stats)
                                  times == Append(old.cost_func_eval_times, Tup([i \in 1..n |-> Duration]))
                              IN [raised |-> IF fail_at = 0 THEN "" ELSE "CostError",
                                  value |-> IF fail_at = 0 THEN ConcatAxis0(Tup([i \in 1..NumCost |-> CostBlock(WeightedCost(Costs(st.amps, i), i))])) ELSE <<>>,
                                  st |-> [st EXCEPT !.stats = Some([old EXCEPT !.cost_func_eval_times = times]),
                                                    !.log = st.log \o Tup([i \in 1..queried |-> Event("costs", i, None)])]]

\* The branch of wrapped_cost_functions without statistics.
CostsPlain(st, fail_at) == LET queried == IF fail_at = 0 THEN NumCost ELSE fail_at
                           IN [raised |-> IF fail_at = 0 THEN "" ELSE "CostError",
                               value |-> IF fail_at = 0 THEN ConcatAxis0(Tup([i \in 1..NumCost |-> CostBlock(WeightedCost(Costs(st.amps, i), i))])) ELSE <<>>,
                               st |-> [st EXCEPT !.log = st.log \o Tup([i \in 1..queried |-> Event("costs", i, None)])]]

\* Simulator.wrapped_cost_functions(pulse)
WrappedCostFunctions(pulse_arg, st, fail_at) == LET p == EffectivePulse(pulse_arg)
                                                    called == [st EXCEPT !.log = Append(st.log, Event("wrapped_cost_functions", 0, p))]
                                                    bound == SetCtrlAmps(p, called)
                                                 IN IF ~IsNone(st.stats) THEN CostsRecorded(bound, fail_at) ELSE CostsPlain(bound, fail_at)

\* Variant: "delta[n_time] = delta_eps" perturbs the whole time step.
OneHotRow(p, n_time, n_operator, delta_eps) == Tup([t \in 1..Len(p) |-> Tup([c \in 1..Len(p[t]) |-> IF t = n_time THEN delta_eps ELSE 0])])

\* "delta = np.zeros_like(test_pulse); delta[n_time, n_operator] = delta_eps"
OneHot(p, n_time, n_operator, delta_eps) == Tup([t \in 1..Len(p) |-> Tup([c \in 1..Len(p[t]) |-> IF t = n_time /\ c = n_operator THEN delta_eps ELSE 0])])

\* "for n_time in range(n_times): for n_operator in range(n_operators)"
LoopEntries(p) == Flatten(Tup([t \in 1..Len(p) |-> Tup([c \in 1..Len(p[t]) |-> <<t, c>>])]))

\* The body of the double loop of numeric_gradient, over the remaining entries.
RECURSIVE NumericLoop(_, _, _, _, _, _)
NumericLoop(entries, test_pulse, delta_eps, symmetric, central_costs, acc) ==
    IF entries = <<>> THEN acc
    ELSE LET delta == OneHot(test_pulse, Head(entries)[1], Head(entries)[2], delta_eps)
             fwd == WrappedCostFunctions(Some(Add2(test_pulse, delta)), acc.st, 0)
             bck == WrappedCostFunctions(Some(Sub2(test_pulse, delta)), fwd.st, 0)
             col == IF symmetric THEN Div1(Sub1(fwd.value, bck.value), 2 * delta_eps) ELSE Div1(Sub1(fwd.value, central_costs), delta_eps)
         IN NumericLoop(Tail(entries), test_pulse, delta_eps, symmetric, central_costs, [st |-> IF symmetric THEN bck.st ELSE fwd.st, cols |-> Append(acc.cols, col)])

\* Simulator.numeric_gradient(pulse, delta_eps, symmetric)
NumericGradient(pulse_arg, delta_eps, symmetric, st) ==
    LET test_pulse == Val(EffectivePulse(pulse_arg))
        called == [st EXCEPT !.log = Append(st.log, Event("numeric_gradient", delta_eps, EffectivePulse(pulse_arg)))]
        central == WrappedCostFunctions(Some(test_pulse), called, 0)
        n_times == Shape(test_pulse)[1]
        n_operators == Shape(test_pulse)[2]
        n_cost_funcs == Len(central.value)
        done == NumericLoop(LoopEntries(test_pulse), test_pulse, delta_eps, symmetric, central.value, [st |-> central.st, cols |-> <<>>])
    IN [raised |-> "",
        value |-> Tup([t \in 1..n_times |-> Tup([j \in 1..n_cost_funcs |-> Tup([c \in 1..n_operators |-> done.cols[(t - 1) * n_operators + c][j]])])]),
        st |-> done.st]

\* "if self.cost_fktn_weights is not None: jac_u *= self.cost_fktn_weights[i]"
WeightedGrad(jac_u, i) == IF ~IsNone(cost_fktn_weights) THEN [jac_u EXCEPT !.a = IF jac_u.ndim = 2 THEN Scale3(<<jac_u.a>>, Val(cost_fktn_weights)[i])[1] ELSE Scale3(jac_u.a, Val(cost_fktn_weights)[i])] ELSE jac_u

\* "if len(jac_u.shape) == 2: jac_u = np.expand_dims(jac_u, axis=1)"
ThreeAxis(jac_u) == IF jac_u.ndim = 2 THEN ExpandDimsAxis1(jac_u.a) ELSE jac_u.a

\* Variant: the transfer stage is applied before the amplitude stage.
ChainRuleSwapped(jac_u, p) == LET jac_x == TransferChainRule(jac_u)
                                  jac_x_transferred == AmplitudeChainRule(jac_x, TransferFunction(p))
                              IN jac_x_transferred

\* The two chain-rule stages of wrapped_jac_function for one cost function.
ChainRule(jac_u, p) == LET jac_x == AmplitudeChainRule(jac_u, TransferFunction(p))
                           jac_x_transferred == TransferChainRule(jac_x)
                       IN jac_x_transferred

\* The collaborator calls of one pass of the loop of wrapped_jac_function.
JacEvents(i, p) == <<Event("grad", i, None), Event("transfer_function", i, Some(p)), Event("amplitude_chain_rule", i, None), Event("transfer_chain_rule", i, None)>>

\* The analytic part of wrapped_jac_function; cost function fail_at (if any) raises in grad().
AnalyticJacobian(pulse_arg, st, fail_at) ==
    LET p == EffectivePulse(pulse_arg)
        bound == SetCtrlAmps(p, st)
        record_evaluation_times == ~IsNone(st.stats)
        n == IF fail_at = 0 THEN NumCost ELSE fail_at - 1
        jacobians == Tup([i \in 1..NumCost |-> ChainRule(ThreeAxis(WeightedGrad(Grad(bound.amps, i), i)), Val(p))])
        events == Flatten(Tup([i \in 1..n |-> JacEvents(i, Val(p))])) \o (IF fail_at = 0 THEN <<>> ELSE <<Event("grad", fail_at, None)>>)
        timed == IF record_evaluation_times
                 THEN Some([Val(st.stats) EXCEPT !.grad_func_eval_times = Append(@, Tup([i \in 1..n |-> Duration]))])
                 ELSE st.stats
    IN [raised |-> IF fail_at = 0 THEN "" ELSE "GradError",
        value |-> IF fail_at = 0 THEN ConcatAxis1(jacobians) ELSE <<>>,
        st |-> [bound EXCEPT !.stats = timed, !.log = bound.log \o events]]

\* Simulator.wrapped_jac_function(pulse)
WrappedJacFunction(pulse_arg, st, fail_at) ==
    LET called == [st EXCEPT !.log = Append(st.log, Event("wrapped_jac_function", 0, EffectivePulse(pulse_arg)))]
    IN IF numeric_jacobian THEN NumericGradient(pulse_arg, DefaultDeltaEps, FALSE, called)
       ELSE AnalyticJacobian(pulse_arg, called, fail_at)

\* Simulator.compare_numeric_to_analytic_gradient(pulse, delta_eps, symmetric);
\* the norms are kept squared: diff_norm^2 and the two norms^2 of the quotient.
CompareNumericToAnalyticGradient(pulse_arg, delta_eps, symmetric, st) ==
    LET numeric_gradient == NumericGradient(pulse_arg, delta_eps, symmetric, st)
        analytic_gradient == WrappedJacFunction(pulse_arg, numeric_gradient.st, 0)
        diff == Sub3(numeric_gradient.value, analytic_gradient.value)
    IN [raised |-> "",
        value |-> [numeric |-> numeric_gradient.value, analytic |-> analytic_gradient.value,
                   diff_norm_sq |-> NormSq3(diff),
                   norms_sq |-> <<NormSq3(numeric_gradient.value), NormSq3(analytic_gradient.value)>>],
        st |-> analytic_gradient.st]

(***************************************************************************)
(* The state machine: one action per public operation                       *)
(***************************************************************************)
Call(op, pulse_arg, delta_eps, symmetric, fail_at, raised, value, log) ==
    [op |-> op, pulse_arg |-> pulse_arg, delta_eps |-> delta_eps, symmetric |-> symmetric,
     fail_at |-> fail_at, raised |-> raised, value |-> value, log |-> log]

\* The arguments pulse, num_times, num_ctrl of __init__.
InitPulseArgs == {[pulse |-> None, num_times |-> None, num_ctrl |-> None],
                  [pulse |-> Some(PulseA), num_times |-> Some(Shape(PulseA)[1]), num_ctrl |-> Some(Shape(PulseA)[2])]}

\* Variant: an empty weight sequence is stored as given.
KeptWeights(weights) == weights

\* "if self.cost_fktn_weights is not None: if len(...) == 0: ... = None"
NormalizedWeights(weights) == IF ~IsNone(weights) /\ Len(Val(weights)) = 0 THEN None ELSE weights

\* "elif not len(self.cost_fktns) == len(self.cost_fktn_weights): raise ValueError"
WeightsRejected(fktns, weights) == ~IsNone(weights) /\ Len(Val(weights)) # 0 /\ ~(Len(fktns) = Len(Val(weights)))

\* Simulator.__init__
Init ==
    \E fktns \in MeasureLists, record_performance_statistics \in BOOLEAN, numeric \in BOOLEAN, pa \in InitPulseArgs :
      \E weights \in WeightsFor(Len(fktns)) :
        /\ args = [cost_fktns |-> fktns, pulse |-> pa.pulse, num_times |-> pa.num_times, num_ctrl |-> pa.num_ctrl,
                   record_performance_statistics |-> record_performance_statistics,
                   numeric_jacobian |-> numeric, cost_fktn_weights |-> weights]
        /\ num_ctrl = pa.num_ctrl
        /\ num_times = pa.num_times
        /\ pulse = pa.pulse
        /\ cost_fktns = fktns
        /\ amps = [s \in Solvers |-> None]
        /\ stats = IF record_performance_statistics THEN Some([cost_func_eval_times |-> <<>>, grad_func_eval_times |-> <<>>]) ELSE None
        /\ numeric_jacobian = numeric
        /\ cost_fktn_weights = NormalizedWeights(weights)
        /\ constructed = IF WeightsRejected(fktns, weights) THEN "ValueError" ELSE "ok"
        /\ ret = Call("__init__", pa.pulse, 0, FALSE, 0, IF WeightsRejected(fktns, weights) THEN "ValueError" ELSE "", <<>>, <<>>)

\* The statistics lists are capped: a call starts only below MaxRecorded entries.
CostsBelowCap == IF IsNone(stats) THEN TRUE ELSE Len(Val(stats).cost_func_eval_times) < MaxRecorded
GradsBelowCap == IF IsNone(stats) THEN TRUE ELSE Len(Val(stats).grad_func_eval_times) < MaxRecorded

\* A call is made on a constructed object, with a pulse to evaluate.
CanEvaluate(pulse_arg) == constructed = "ok" /\ ret.op = "" /\ ~IsNone(EffectivePulse(pulse_arg))

PulseArgs == {None, Some(PulseB)}
NewPulses == {None} \cup {Some(p) : p \in Pulses}
Start == [stats |-> stats, amps |-> amps, log |-> <<>>]

\* The pulse setter.
SetPulse ==
    \E new_pulse \in NewPulses :
        /\ constructed = "ok"
        /\ ret.op = ""
        /\ IF ~IsNone(new_pulse) /\ IsNone(pulse)
           THEN /\ ret' = Call("pulse", new_pulse, 0, FALSE, 0, "AttributeError", <<>>, <<>>)
                /\ UNCHANGED <<pulse, num_times, num_ctrl>>
           ELSE /\ num_times' = IF ~IsNone(new_pulse) THEN Some(Shape(Val(pulse))[1]) ELSE num_times
                /\ num_ctrl' = IF ~IsNone(new_pulse) THEN Some(Shape(Val(pulse))[2]) ELSE num_ctrl
                /\ pulse' = new_pulse
                /\ ret' = Call("pulse", new_pulse, 0, FALSE, 0, "", <<>>, <<>>)
        /\ UNCHANGED <<config, amps, stats>>

EvaluateCosts ==
    \E pulse_arg \in PulseArgs, fail_at \in 0..NumCost :
        /\ CanEvaluate(pulse_arg)
        /\ CostsBelowCap
        /\ \E r \in {WrappedCostFunctions(pulse_arg, Start, fail_at)} :
              /\ stats' = r.st.stats
              /\ amps' = r.st.amps
              /\ ret' = Call("wrapped_cost_functions", pulse_arg, 0, FALSE, fail_at, r.raised, r.value, r.st.log)
        /\ UNCHANGED <<config, pulse, num_times, num_ctrl>>

EvaluateJacobian ==
    \E pulse_arg \in PulseArgs, fail_at \in 0..NumCost :
        /\ CanEvaluate(pulse_arg)
        /\ IF numeric_jacobian THEN CostsBelowCap /\ fail_at = 0 ELSE GradsBelowCap
        /\ \E r \in {WrappedJacFunction(pulse_arg, Start, fail_at)} :
              /\ stats' = r.st.stats
              /\ amps' = r.st.amps
              /\ ret' = Call("wrapped_jac_function", pulse_arg, 0, FALSE, fail_at, r.raised, r.value, r.st.log)
        /\ UNCHANGED <<config, pulse, num_times, num_ctrl>>

EvaluateNumericGradient ==
    \E pulse_arg \in PulseArgs, delta_eps \in DeltaEpsValues, symmetric \in BOOLEAN :
        /\ CanEvaluate(pulse_arg)
        /\ CostsBelowCap
        /\ \E r \in {NumericGradient(pulse_arg, delta_eps, symmetric, Start)} :
              /\ stats' = r.st.stats
              /\ amps' = r.st.amps
              /\ ret' = Call("numeric_gradient", pulse_arg, delta_eps, symmetric, 0, r.raised, r.value, r.st.log)
        /\ UNCHANGED <<config, pulse, num_times, num_ctrl>>

\* Variant: the comparison stores its pulse argument in self._pulse.
CompareGradientsStoringPulse ==
    \E pulse_arg \in PulseArgs, delta_eps \in DeltaEpsValues, symmetric \in BOOLEAN :
        /\ CanEvaluate(pulse_arg)
        /\ CostsBelowCap /\ GradsBelowCap
        /\ \E r \in {CompareNumericToAnalyticGradient(pulse_arg, delta_eps, symmetric, Start)} :
              /\ stats' = r.st.stats
              /\ amps' = r.st.amps
              /\ ret' = Call("compare_numeric_to_analytic_gradient", pulse_arg, delta_eps, symmetric, 0, r.raised, r.value, r.st.log)
        /\ pulse' = EffectivePulse(pulse_arg)
        /\ UNCHANGED <<config, num_times, num_ctrl>>

CompareGradients ==
    \E pulse_arg \in PulseArgs, delta_eps \in DeltaEpsValues, symmetric \in BOOLEAN :
        /\ CanEvaluate(pulse_arg)
        /\ CostsBelowCap /\ GradsBelowCap
        /\ \E r \in {CompareNumericToAnalyticGradient(pulse_arg, delta_eps, symmetric, Start)} :
              /\ stats' = r.st.stats
              /\ amps' = r.st.amps
              /\ ret' = Call("compare_numeric_to_analytic_gradient", pulse_arg, delta_eps, symmetric, 0, r.raised, r.value, r.st.log)
        /\ UNCHANGED <<config, pulse, num_times, num_ctrl>>

\* The caller takes the outcome of the last call and is free to call again.
Return ==
    /\ constructed = "ok"
    /\ ret.op # ""
    /\ ret' = Call("", None, 0, FALSE, 0, "", <<>>, <<>>)
    /\ UNCHANGED <<config, amps, pulse, num_times, num_ctrl, stats>>

Next == SetPulse \/ EvaluateCosts \/ EvaluateJacobian \/ EvaluateNumericGradient \/ CompareGradients \/ Return

Spec == Init /\ [][Next]_vars

(***************************************************************************)
(* Properties                                                               *)
(***************************************************************************)
Returned(op) == constructed = "ok" /\ ret.op = op /\ ret.raised = ""
CalledPulse == Val(EffectivePulse(ret.pulse_arg))
TotalCostIndices == SumSeq(Tup([i \in 1..NumCost |-> Len(cost_fktns[i].index)]))
Offset(i) == SumSeq(Tup([m \in 1..(i - 1) |-> Len(cost_fktns[m].index)]))
\* The cost function and the component of it that slot j of the cost axis belongs to.
Owner(j) == CHOOSE ik \in {<<i, k>> : i \in 1..NumCost, k \in 1..TotalCostIndices} : ik[2] <= Len(cost_fktns[ik[1]].index) /\ Offset(ik[1]) + ik[2] = j
WeightOf(i) == IF IsNone(cost_fktn_weights) THEN 1 ELSE Val(cost_fktn_weights)[i]
\* The gradient of component k of cost function i w.r.t. the raw pulse p, weighted.
PulseGradient(i, k, p, t, c) == WeightOf(i) * SumSeq(Tup([u \in 1..(Len(p) - t + 1) |-> Coef(i, k, c) * 2 * TransferFunction(p)[t + u - 1][c]]))

\* C1: the cost axis of cost_indices, of the vector of wrapped_cost_functions
\* and of axis 1 of the tensor of wrapped_jac_function is the concatenation of
\* the cost functions' components in list order: all three have
\* sum(len(index)) slots, slot j of each belongs to the same component of the
\* same cost function, and the tensor has shape (num_times, slots, num_ctrl).
C1_CostAxisIsConcatenation ==
    /\ constructed = "ok" =>
          /\ Len(CostIndices) = TotalCostIndices
          /\ \A j \in 1..TotalCostIndices : CostIndices[j] = cost_fktns[Owner(j)[1]].index[Owner(j)[2]]
    /\ Returned("wrapped_cost_functions") =>
          /\ Len(ret.value) = TotalCostIndices
          /\ \A j \in 1..TotalCostIndices : ret.value[j] = WeightOf(Owner(j)[1]) * CostComponent(amps, Owner(j)[1], Owner(j)[2])
    /\ Returned("wrapped_jac_function") =>
          /\ Shape3(ret.value) = <<Shape(CalledPulse)[1], TotalCostIndices, Shape(CalledPulse)[2]>>
          /\ \A t \in 1..Len(ret.value) : Len(ret.value[t]) = TotalCostIndices /\ \A j \in 1..TotalCostIndices : Len(ret.value[t][j]) = Shape(CalledPulse)[2]
          /\ ~numeric_jacobian => \A t \in 1..Len(ret.value), j \in 1..TotalCostIndices, c \in 1..Shape(CalledPulse)[2] :
                                      ret.value[t][j][c] = PulseGradient(Owner(j)[1], Owner(j)[2], CalledPulse, t, c)

\* A scalar and a vector cost function, in either order, returned costs and a Jacobian.
C1_Witness ==
    /\ NumCost = 2
    /\ Returned("wrapped_jac_function") /\ ~numeric_jacobian
    /\ cost_fktns[1].kind = "vector" /\ cost_fktns[2].kind = "scalar"
    /\ Shape3(ret.value) = <<2, 3, 1>>

\* The vector the same object without weights returns for the bound pulse.
UnweightedCosts == Flatten(Tup([i \in 1..NumCost |-> Tup([k \in 1..Len(cost_fktns[i].index) |-> CostComponent(amps, i, k)])]))

C3_ConstructionChecksWeights ==
    /\ constructed \in {"ok", "ValueError"}
    /\ constructed = "ValueError" <=> (~IsNone(args.cost_fktn_weights) /\ Len(Val(args.cost_fktn_weights)) # 0 /\ Len(Val(args.cost_fktn_weights)) # Len(args.cost_fktns))
    /\ (IsNone(args.cost_fktn_weights) \/ args.cost_fktn_weights = Some(<<>>)) => IsNone(cost_fktn_weights)
    /\ (constructed = "ok" /\ ~IsNone(args.cost_fktn_weights) /\ Len(Val(args.cost_fktn_weights)) # 0) => cost_fktn_weights = args.cost_fktn_weights
    /\ (args.cost_fktn_weights = Some(<<>>) /\ Returned("wrapped_cost_functions")) => ret.value = UnweightedCosts
    /\ (args.cost_fktn_weights = Some(<<>>) /\ Returned("wrapped_jac_function") /\ ~numeric_jacobian) =>
          \A t \in 1..Len(ret.value), j \in 1..TotalCostIndices, c \in 1..Shape(CalledPulse)[2] :
              ret.value[t][j][c] = SumSeq(Tup([u \in 1..(Len(CalledPulse) - t + 1) |-> Coef(Owner(j)[1], Owner(j)[2], c) * 2 * TransferFunction(CalledPulse)[t + u - 1][c]]))

\* An object built with an empty weight sequence returned costs.
C3_Witness ==
    /\ args.cost_fktn_weights = Some(<<>>)
    /\ Returned("wrapped_cost_functions")
    /\ NumCost = 2

\* Construction was refused for a weight sequence of the wrong length.
C3_Rejected == constructed = "ValueError"

\* The analytic Jacobian of the called pulse: every slot's gradient, weighted.
AnalyticOf(p) == Tup([t \in 1..Len(p) |-> Tup([j \in 1..TotalCostIndices |-> Tup([c \in 1..Len(p[t]) |-> PulseGradient(Owner(j)[1], Owner(j)[2], p, t, c)])])])

\* C4: compare_numeric_to_analytic_gradient subtracts the analytic Jacobian from
\* the numeric one also when numeric_jacobian is set: the second operand comes
\* from the cost functions' grad() and the two chain rules, never from
\* numeric_gradient.
C4_SecondOperandIsAnalytic ==
    Returned("compare_numeric_to_analytic_gradient") =>
        /\ ret.value.analytic = AnalyticOf(CalledPulse)
        /\ Cardinality({n \in 1..Len(ret.log) : ret.log[n].ev = "numeric_gradient"}) = 1

\* C5: after an assignment to the pulse attribute the assignment has not failed
\* and, when the pulse is not None, (num_times, num_ctrl) is its shape.
C5_ShapeFollowsPulse ==
    (constructed = "ok" /\ ret.op = "pulse") =>
        /\ ret.raised = ""
        /\ ~IsNone(pulse) => (num_times = Some(Shape(Val(pulse))[1]) /\ num_ctrl = Some(Shape(Val(pulse))[2]))

IsPrefix(a, b) == Len(a) <= Len(b) /\ SubSeq(b, 1, Len(a)) = a
FullEntry == Tup([i \in 1..NumCost |-> Duration])

C6_Step ==
    constructed = "ok" =>
        /\ IsNone(stats) => (IsNone(stats') /\ (ret'.op \in {"wrapped_cost_functions", "wrapped_jac_function"} /\ ret'.fail_at = 0 => ret'.raised = ""))
        /\ ~IsNone(stats) =>
              /\ ~IsNone(stats')
              /\ IsPrefix(Val(stats).cost_func_eval_times, Val(stats').cost_func_eval_times)
              /\ IsPrefix(Val(stats).grad_func_eval_times, Val(stats').grad_func_eval_times)
              /\ (ret'.op = "wrapped_cost_functions" /\ ret'.raised = "") =>
                    /\ Val(stats').cost_func_eval_times = Append(Val(stats).cost_func_eval_times, FullEntry)
                    /\ Val(stats').grad_func_eval_times = Val(stats).grad_func_eval_times
              /\ (ret'.op = "wrapped_jac_function" /\ ret'.raised = "" /\ ~numeric_jacobian) =>
                    /\ Val(stats').grad_func_eval_times = Append(Val(stats).grad_func_eval_times, FullEntry)
                    /\ Val(stats').cost_func_eval_times = Val(stats).cost_func_eval_times

C7_NoStateMutation ==
    [][ret'.op = "compare_numeric_to_analytic_gradient" => UNCHANGED <<pulse, num_times, num_ctrl, cost_fktn_weights, stats, amps>>]_vars

NumEntries(p) == Len(p) * Len(p[1])
CostEvaluations(p, symmetric) == 1 + NumEntries(p) * (IF symmetric THEN 2 ELSE 1)
LastEntry(p) == LoopEntries(p)[NumEntries(p)]

C7_Step ==
    ret'.op = "compare_numeric_to_analytic_gradient" =>
        LET p == Val(EffectivePulse(ret'.pulse_arg))
            again == IF numeric_jacobian THEN CostEvaluations(p, FALSE) ELSE 0
            last == IF numeric_jacobian THEN Add2(p, OneHot(p, LastEntry(p)[1], LastEntry(p)[2], DefaultDeltaEps)) ELSE p
        IN /\ UNCHANGED <<pulse, num_times, num_ctrl, cost_fktn_weights, cost_fktns, numeric_jacobian>>
           /\ \A s \in Solvers : amps'[s] = Some(last)
           /\ IsNone(stats) => IsNone(stats')
           /\ ~IsNone(stats) =>
                 /\ ~IsNone(stats')
                 /\ IsPrefix(Val(stats).cost_func_eval_times, Val(stats').cost_func_eval_times)
                 /\ IsPrefix(Val(stats).grad_func_eval_times, Val(stats').grad_func_eval_times)
                 /\ Len(Val(stats').cost_func_eval_times) = Len(Val(stats).cost_func_eval_times) + CostEvaluations(p, ret'.symmetric) + again
                 /\ Len(Val(stats').grad_func_eval_times) = Len(Val(stats).grad_func_eval_times) + (IF numeric_jacobian THEN 0 ELSE 1)

\* C7, amended: compare_numeric_to_analytic_gradient leaves the stored pulse,
\* num_times/num_ctrl and the weights as they were, but it binds every solver
\* to the last pulse it evaluated and, with statistics, appends one timing
\* entry per cost evaluation and per analytic Jacobian evaluation.
C7_ChangesOnlyBindingsAndStatistics == [][C7_Step]_vars

\* A symmetric comparison on a recording object has returned.
C7_Witness ==
    /\ Returned("compare_numeric_to_analytic_gradient")
    /\ ret.symmetric /\ ~numeric_jacobian
    /\ ~IsNone(stats)
    /\ Len(Val(stats).cost_func_eval_times) = 5
    /\ ~IsNone(pulse) /\ amps[1] # pulse

\* The raw gradient of cost function i as a 3-axis array, weighted.
RawGradient(i, p) == Tup([t \in 1..Len(p) |-> Tup([k \in 1..Len(cost_fktns[i].index) |-> Tup([c \in 1..Len(p[t]) |-> WeightOf(i) * Coef(i, k, c)])])])
Block(jac, i) == Tup([t \in 1..Len(jac) |-> SubSeq(jac[t], Offset(i) + 1, Offset(i) + Len(cost_fktns[i].index))])

\* C8: an analytic wrapped_jac_function call binds all solvers to the call's
\* pulse before any grad() query, takes the cost functions in list order and
\* pushes each raw gradient first through the amplitude function's chain rule
\* (with transfer_function(pulse) as auxiliary input) and then through the
\* transfer function's chain rule; the block appended is the result of the
\* transfer stage.
C8_AmplitudeStageBeforeTransferStage ==
    (constructed = "ok" /\ ret.op = "wrapped_jac_function" /\ ~numeric_jacobian) =>
        LET p == CalledPulse
            ns == Cardinality(Solvers)
            done == IF ret.fail_at = 0 THEN NumCost ELSE ret.fail_at - 1
        IN /\ ret.log[1] = Event("wrapped_jac_function", 0, Some(p))
           /\ \A s \in 1..ns : ret.log[1 + s] = Event("set_ctrl_amps", s, Some(p))
           /\ \A s \in Solvers : amps[s] = Some(p)
           /\ \A i \in 1..done :
                 /\ ret.log[1 + ns + 4 * (i - 1) + 1] = Event("grad", i, None)
                 /\ ret.log[1 + ns + 4 * (i - 1) + 2] = Event("transfer_function", i, Some(p))
                 /\ ret.log[1 + ns + 4 * (i - 1) + 3] = Event("amplitude_chain_rule", i, None)
                 /\ ret.log[1 + ns + 4 * (i - 1) + 4] = Event("transfer_chain_rule", i, None)
           /\ Len(ret.log) = 1 + ns + 4 * done + (IF ret.fail_at = 0 THEN 0 ELSE 1)
           /\ ret.raised = "" => \A i \in 1..NumCost : Block(ret.value, i) = TransferChainRule(AmplitudeChainRule(RawGradient(i, p), TransferFunction(p)))

\* An analytic Jacobian of two cost functions on a pulse of two time steps.
C8_Witness ==
    /\ Returned("wrapped_jac_function") /\ ~numeric_jacobian
    /\ NumCost = 2
    /\ CalledPulse = PulseA
    /\ \E i \in 1..NumCost : Block(ret.value, i) # AmplitudeChainRule(TransferChainRule(RawGradient(i, CalledPulse)), TransferFunction(CalledPulse))

\* C9: no statistics entry is ever left half-written: every entry of both
\* timing lists holds len(cost_fktns) durations, also after a failed call.
C9_NoHalfWrittenEntry ==
    (constructed = "ok" /\ ~IsNone(stats)) =>
        /\ \A n \in 1..Len(Val(stats).cost_func_eval_times) : Len(Val(stats).cost_func_eval_times[n]) = NumCost
        /\ \A n \in 1..Len(Val(stats).grad_func_eval_times) : Len(Val(stats).grad_func_eval_times[n]) = NumCost

IsCostCall(e) == e.ev = "wrapped_cost_functions"
Evaluated == SelectSeq(ret.log, IsCostCall)

\* C10 as stated: the baseline is evaluated in forward mode only, so a symmetric
\* numeric_gradient makes 2 * num_times * num_ctrl cost evaluations, none of
\* them at the unperturbed pulse.
C10_BaselineInForwardModeOnly ==
    Returned("numeric_gradient") =>
        /\ Len(Evaluated) = IF ret.symmetric THEN 2 * NumEntries(CalledPulse) ELSE 1 + NumEntries(CalledPulse)
        /\ ret.symmetric => \A n \in 1..Len(Evaluated) : Evaluated[n].pulse # Some(CalledPulse)

\* p with entry (t, c) moved by d and every other entry untouched.
Perturbed(p, q, t, c, d) ==
    /\ Shape(q) = Shape(p)
    /\ \A tt \in 1..Len(p) : \A cc \in 1..Len(p[tt]) : q[tt][cc] = p[tt][cc] + (IF tt = t /\ cc = c THEN d ELSE 0)

\* C10, amended: numeric_gradient evaluates the baseline at the unperturbed
\* pulse in both modes: 1 + num_times*num_ctrl cost evaluations when forward,
\* 1 + 2*num_times*num_ctrl when symmetric (baseline, then pulse+delta and, if
\* symmetric, pulse-delta per entry); each perturbation changes only the entry
\* being differentiated, and the pulse of the caller is not modified.
C10_BaselineInBothModes ==
    Returned("numeric_gradient") =>
        LET p == CalledPulse
            per == IF ret.symmetric THEN 2 ELSE 1
        IN /\ ret.log[1] = Event("numeric_gradient", ret.delta_eps, Some(p))
           /\ Len(Evaluated) = 1 + per * NumEntries(p)
           /\ Evaluated[1].pulse = Some(p)
           /\ \A m \in 1..NumEntries(p) :
                 /\ Perturbed(p, Val(Evaluated[1 + per * (m - 1) + 1].pulse), LoopEntries(p)[m][1], LoopEntries(p)[m][2], ret.delta_eps)
                 /\ ret.symmetric => Perturbed(p, Val(Evaluated[1 + per * (m - 1) + 2].pulse), LoopEntries(p)[m][1], LoopEntries(p)[m][2], 0 - ret.delta_eps)

\* A symmetric numeric gradient of a pulse with two entries has returned.
C10_Witness ==
    /\ Returned("numeric_gradient")
    /\ ret.symmetric
    /\ NumEntries(CalledPulse) = 2
    /\ Len(Evaluated) = 5
====
